---- MODULE Spec2Model ----
(***************************************************************************)
(* State-machine model of the leydi-stacks fiber runtime (src/src/main.rs). *)
(*                                                                         *)
(* One control point exists at any time (single OS thread).  `pc` is the   *)
(* position of the code that executes on the stack of the fiber whose id   *)
(* is curr_stack_id; every other fiber is represented by its saved         *)
(* StackContext and by the words that lie on its stack buffer.             *)
(***************************************************************************)
EXTENDS Integers, Sequences, FiniteSets, TLC

(* ------------------------------------------------------------------ *)
(* Program constants                                                   *)
(* ------------------------------------------------------------------ *)
STACK_BUFFER_SIZE == 5242880
MAX_STACKS == 5
PROCESS_MAIN_STACK_ID == 0
TRIGGER_OFFSET == -32

(* ------------------------------------------------------------------ *)
(* Bounds of the model                                                 *)
(* ------------------------------------------------------------------ *)
\* calls of the runtime that main() and the functions of the fibers make
MaxCalls == 6

AVAIABLE == "AVAIABLE"
RUNNING == "RUNNING"
READY == "READY"
State == {AVAIABLE, RUNNING, READY}

\* indices of stack_pool: Vec of MAX_STACKS + 1 stacks
StackIds == 0 .. MAX_STACKS
\* ids a caller may pass: one past the end included
ArgIds == 0 .. (MAX_STACKS + 1)

\* Event { pair, data }: the values the callers of trigger pass
Events == { [pair |-> <<0, 0>>, data |-> 42], [pair |-> <<1, 2>>, data |-> 7] }

\* a register whose content the model does not follow
Garbage == 0 - 1

(* ------------------------------------------------------------------ *)
(* Addresses                                                           *)
(* ------------------------------------------------------------------ *)
\* where the allocator places the stack buffers, and the gap between two
HeapBase == 65536
HeapGap == 4096
\* rsp of the process stack when main() runs
ProcessStack == 2147418112
\* bytes between the entry of a function and the `call switch_and_run`
\* it reaches (the frames of the calls in between)
FrameBytes == 128

\* offsets (from the aligned top) of the words new_stack writes
ChainOffsets == { 0 - 64, 0 - 56, 0 - 48, 0 - 40, 0 - 32, 0 - 24, 0 - 16 }
\* the word new_stack leaves alone
PadOffset == 0 - 8
SlotOffsets == ChainOffsets \cup { PadOffset }
NoDirty == 0 - 72

VARIABLES
    stack_pool,      \* [StackIds -> State]: Stack.state
    stack_context,   \* [StackIds -> [rsp, edi, esi]]: Stack.stack_context
    stack_buffer,    \* [StackIds -> address]: Stack.stack_buffer.as_mut_ptr()
    curr_stack_id,   \* LeydiStacks.curr_stack_id
    data_pool,       \* ShareBuffer.data_pool
    avaiable_index,  \* ShareBuffer.avaiable_index
    RUNTIME_PTR,     \* "null" or "runtime"
    chain,           \* [StackIds -> [SlotOffsets -> word]]: top words of each buffer
    dirty,           \* [StackIds -> offset]: words at or below it may be overwritten
    frame,           \* [StackIds -> [at, k, op]]: the suspended call of each fiber
    pc,              \* the code that executes now
    calls,           \* calls of the runtime made so far
    last,            \* the last runtime call and what it returned
    entries,         \* trigger functions that trigger calls have entered
    log              \* what the logging bodies wrote

vars == << stack_pool, stack_context, stack_buffer, curr_stack_id, data_pool,
           avaiable_index, RUNTIME_PTR, chain, dirty, frame, pc, calls,
           last, entries, log >>

(* ------------------------------------------------------------------ *)
(* Code of the fibers: fn() and fn(usize, usize) values                *)
(* ------------------------------------------------------------------ *)
NoEvent == [pair |-> <<0, 0>>, data |-> 0]
Ins(op, id, ev) == [op |-> op, id |-> id, ev |-> ev]
\* an instruction the model leaves open: any runtime call, or return
ANY == Ins("ANY", 0, NoEvent)
LOG == Ins("LOG", 0, NoEvent)
YIELD == Ins("next_stack", 0, NoEvent)
GOTO_MAIN == Ins("goto_main", 0, NoEvent)
CURRENT_ID == Ins("get_current_stack_id", 0, NoEvent)
STACK_TO(id) == Ins("stack_to", id, NoEvent)
TRIGGER(id, ev) == Ins("trigger_stack_to", id, ev)

\* a function whose every call is left open
AnyCode == [i \in 1 .. MaxCalls |-> ANY]
\* the bodies of func1 .. func4: print and return
LogCode == << LOG >>
\* a body that prints, yields and prints
YieldCode == << LOG, YIELD, LOG >>
\* a body that prints, goes to main and would print
GotoCode == << LOG, GOTO_MAIN, LOG >>
\* stack1_trigger .. stack4_trigger: ask for the current id and print
TriggerCode == << CURRENT_ID, LOG >>
RunBodies == { LogCode, YieldCode, GotoCode }

(* ------------------------------------------------------------------ *)
(* Positions of the executing code                                     *)
(* ------------------------------------------------------------------ *)
Pc(k, code, pos, sp, a1, a2) ==
    [k |-> k, code |-> code, pos |-> pos, sp |-> sp, a1 |-> a1, a2 |-> a2]
\* main(), between two calls
HostPc == Pc("host", << >>, 0, ProcessStack, Garbage, Garbage)
\* inside LeydiStacks::run, at the head of its while loop
RunPc == Pc("run", << >>, 0, ProcessStack, Garbage, Garbage)
\* a `ret` that pops the word at sp
RetPc(sp) == Pc("ret", << >>, 0, sp, Garbage, Garbage)
\* at the entry of finish_and_next_stack, its return address at sp
FinishPc(sp) == Pc("finish", << >>, 0, sp, Garbage, Garbage)
\* the process is gone: a fault, or a panic
CrashPc == Pc("crash", << >>, 0, 0, Garbage, Garbage)
\* the scan of switch_stack never ends
HangPc == Pc("hang", << >>, 0, 0, Garbage, Garbage)

NoFrame == [at |-> 0, k |-> CrashPc, op |-> "none"]

Last(op, res) == [op |-> op, res |-> res]

(* ------------------------------------------------------------------ *)
(* Stack buffers                                                       *)
(* ------------------------------------------------------------------ *)
\* stack_buffer.as_mut_ptr().offset(len), then `& !15`
AlignedTop(i) ==
    LET top == stack_buffer[i] + STACK_BUFFER_SIZE
    IN  top - (top % 16)

Zero == [t |-> "zero", code |-> << >>]
FuncReturn == [t |-> "func_return", code |-> << >>]
FinishAndNextStack == [t |-> "finish_and_next_stack", code |-> << >>]
FnWord(code) == [t |-> "fn", code |-> code]

Max(a, b) == IF a >= b THEN a ELSE b
(* ------------------------------------------------------------------ *)
(* switch_and_run: where the final `ret` lands                         *)
(* ------------------------------------------------------------------ *)
\* The positions the `ret` of fiber i can reach when it pops the word at
\* rsp, with a1 and a2 in edi and esi.  A word that a later frame may have
\* overwritten either survived or sends the process to a fault.
RECURSIVE Land(_, _, _, _, _, _, _)
Land(i, rsp, a1, a2, fr, ch, dt) ==
    IF rsp # 0 /\ fr[i].at = rsp
    THEN { fr[i].k }
    ELSE IF rsp - AlignedTop(i) \in SlotOffsets
    THEN LET s == rsp - AlignedTop(i)
             w == ch[i][s]
             kept == CASE w.t = "fn" -> { Pc("fn", w.code, 1, rsp + 8, a1, a2) }
                       [] w.t = "finish_and_next_stack" -> { FinishPc(rsp + 8) }
                       [] w.t = "func_return" -> Land(i, rsp + 8, a1, a2, fr, ch, dt)
                       [] OTHER -> { CrashPc }
         IN  kept \cup (IF s <= dt[i] THEN { CrashPc } ELSE { })
    ELSE { CrashPc }

\* the frame of a function entered on the buffer of fiber i overwrites the
\* words below its return address
Clobber(i, dt, k) ==
    IF k.k \in { "fn", "finish" } /\ (k.sp - 8) - AlignedTop(i) \in SlotOffsets
    THEN [dt EXCEPT ![i] = Max(@, (k.sp - 8) - AlignedTop(i))]
    ELSE dt

(* ------------------------------------------------------------------ *)
(* switch_stack                                                        *)
(* ------------------------------------------------------------------ *)
RR == [t |-> "RR", id |-> 0]
O1(id) == [t |-> "O1", id |-> id]

\* the `while` of the RR arm, from ready_stack_id = r; seen holds the
\* values ready_stack_id has had, to tell a scan that never ends
RECURSIVE RRScan(_, _, _, _)
RRScan(pool, curr, r, seen) ==
    IF pool[r] = READY
    THEN [res |-> "found", id |-> r]
    ELSE LET r1 == r + 1
             r2 == IF r1 = MAX_STACKS THEN 0 ELSE r1
         IN  IF r2 = curr
             THEN [res |-> "none", id |-> 0]
             ELSE IF r2 \in (seen \cup { r })
             THEN [res |-> "loop", id |-> 0]
             ELSE RRScan(pool, curr, r2, seen \cup { r })

\* a scan that starts after the main fiber
SelectFromOne(pool, curr, sched) ==
    IF sched.t = "RR"
    THEN RRScan(pool, curr, 1, { })
    ELSE [res |-> "found", id |-> sched.id]

Select(pool, curr, sched) ==
    IF sched.t = "RR"
    THEN RRScan(pool, curr, 0, { })
    ELSE [res |-> "found", id |-> sched.id]

\* a switch that leaves the outgoing fiber READY whatever its state
MarkAlwaysReady(pool, curr, ready) ==
    [[pool EXCEPT ![ready] = RUNNING] EXCEPT ![curr] = READY]

\* the states after a selection of fiber ready
Mark(pool, curr, ready) ==
    LET p1 == [pool EXCEPT ![ready] = RUNNING]
    IN  IF p1[curr] # AVAIABLE THEN [p1 EXCEPT ![curr] = READY] ELSE p1

\* switch_stack(sched) called with the table pool and the contexts ctxs;
\* k is where the caller goes on when the call returns, op names the call
SwitchStack(pool, ctxs, sched, k, op) ==
    LET sel == Select(pool, curr_stack_id, sched)
    IN  CASE sel.res = "none" ->
               /\ stack_pool' = pool
               /\ stack_context' = ctxs
               /\ pc' = k
               /\ last' = Last(op, "false")
               /\ UNCHANGED << curr_stack_id, frame, dirty >>
          [] sel.res = "loop" ->
               /\ stack_pool' = pool
               /\ stack_context' = ctxs
               /\ pc' = HangPc
               /\ last' = Last(op, "hang")
               /\ UNCHANGED << curr_stack_id, frame, dirty >>
          [] OTHER ->
               LET ready == sel.id
                   paused == curr_stack_id
                   at == pc.sp - FrameBytes
                   c1 == [ctxs EXCEPT ![paused] =
                              [rsp |-> at, edi |-> Garbage, esi |-> Garbage]]
                   f1 == [frame EXCEPT ![paused] = [at |-> at, k |-> k, op |-> op]]
               IN  /\ stack_pool' = Mark(pool, paused, ready)
                   /\ curr_stack_id' = ready
                   /\ stack_context' = c1
                   /\ frame' = f1
                   /\ pc' \in Land(ready, c1[ready].rsp, c1[ready].edi,
                                   c1[ready].esi, f1, chain, dirty)
                   /\ dirty' = Clobber(ready, dirty, pc')
                   /\ last' = Last(op, "switch")
(* ------------------------------------------------------------------ *)
(* LeydiStacks::new                                                    *)
(* ------------------------------------------------------------------ *)
DefaultContext == [rsp |-> 0, edi |-> 0, esi |-> 0]

Init ==
    /\ stack_pool = [i \in StackIds |->
                        IF i = PROCESS_MAIN_STACK_ID THEN RUNNING ELSE AVAIABLE]
    /\ stack_context = [i \in StackIds |-> DefaultContext]
    /\ stack_buffer = [i \in StackIds |->
                          HeapBase + i * (STACK_BUFFER_SIZE + HeapGap)]
    /\ curr_stack_id = PROCESS_MAIN_STACK_ID
    /\ data_pool = << >>
    /\ avaiable_index = 0
    /\ RUNTIME_PTR = "null"
    /\ chain = [i \in StackIds |-> [s \in SlotOffsets |-> Zero]]
    /\ dirty = [i \in StackIds |-> NoDirty]
    /\ frame = [i \in StackIds |-> NoFrame]
    /\ pc = HostPc
    /\ calls = 0
    /\ last = Last("new", "none")
    /\ entries = 0
    /\ log = << >>

(* ------------------------------------------------------------------ *)
(* Who calls                                                           *)
(* ------------------------------------------------------------------ *)
\* main() is between two calls
HostTurn == pc.k = "host"
\* the function that executes is at instruction ins
FnTurn(ins) ==
    /\ pc.k = "fn"
    /\ pc.pos <= Len(pc.code)
    /\ (pc.code[pc.pos] = ins \/ (pc.code[pc.pos] = ANY /\ ins # LOG))
Turn(ins) == HostTurn \/ FnTurn(ins)
\* the caller, after the call
After == IF pc.k = "host" THEN pc ELSE [pc EXCEPT !.pos = @ + 1]
Count == calls' = calls + 1

\* a call through RUNTIME_PTR before run() has set it
NullDeref(op) ==
    /\ RUNTIME_PTR = "null"
    /\ pc' = CrashPc
    /\ last' = Last(op, "crash")
    /\ UNCHANGED << stack_pool, stack_context, curr_stack_id, data_pool,
                    avaiable_index, frame, dirty >>

(* ------------------------------------------------------------------ *)
(* LeydiStacks::new_stack                                              *)
(* ------------------------------------------------------------------ *)
\* a find that takes the last AVAIABLE stack
LastAvaiable(pool) ==
    LET free == { i \in StackIds : pool[i] = AVAIABLE }
    IN  IF free = { } THEN 0 - 1
        ELSE CHOOSE i \in free : \A j \in free : i >= j

\* stack_pool.iter_mut().find(|t| t.state == AVAIABLE)
FirstAvaiable(pool) ==
    LET free == { i \in StackIds : pool[i] = AVAIABLE }
    IN  IF free = { } THEN 0 - 1
        ELSE CHOOSE i \in free : \A j \in free : i <= j

\* a chain whose event flow ends in a plain return
PrimedChainNoFinish ==
    [s \in SlotOffsets |->
        CASE s = 0 - 16 -> FuncReturn
          [] s = 0 - 24 -> FuncReturn
          [] s = 0 - 40 -> FuncReturn
          [] s = 0 - 48 -> FinishAndNextStack
          [] s = 0 - 56 -> FuncReturn
          [] OTHER -> Zero]

\* the words new_stack writes that are not the two functions
PrimedChain ==
    [s \in SlotOffsets |->
        CASE s = 0 - 16 -> FinishAndNextStack
          [] s = 0 - 24 -> FuncReturn
          [] s = 0 - 40 -> FuncReturn
          [] s = 0 - 48 -> FinishAndNextStack
          [] s = 0 - 56 -> FuncReturn
          [] OTHER -> Zero]

NewStack(base_function, trigger_function) ==
    /\ HostTurn
    /\ Count
    /\ LET n == FirstAvaiable(stack_pool)
       IN  IF n < 0
           THEN /\ pc' = CrashPc
                /\ last' = Last("new_stack", "crash")
                /\ UNCHANGED << stack_pool, stack_context, chain, dirty >>
           ELSE /\ stack_pool' = [stack_pool EXCEPT ![n] = READY]
                /\ chain' = [chain EXCEPT ![n] =
                       [s \in SlotOffsets |->
                           CASE s = TRIGGER_OFFSET -> FnWord(trigger_function)
                             [] s = 0 - 64 -> FnWord(base_function)
                             [] s = PadOffset -> chain[n][s]
                             [] OTHER -> PrimedChain[s]]]
                /\ dirty' = [dirty EXCEPT ![n] = NoDirty]
                /\ stack_context' = [stack_context EXCEPT
                       ![n].rsp = AlignedTop(n) - 64]
                /\ pc' = pc
                /\ last' = Last("new_stack", "none")
    /\ UNCHANGED << stack_buffer, curr_stack_id, data_pool, avaiable_index,
                    RUNTIME_PTR, frame, entries, log >>

(* ------------------------------------------------------------------ *)
(* LeydiStacks::run                                                    *)
(* ------------------------------------------------------------------ *)
\* the call: RUNTIME_PTR = self, then the loop
Run ==
    /\ HostTurn
    /\ Count
    /\ RUNTIME_PTR' = "runtime"
    /\ pc' = RunPc
    /\ last' = Last("run", "none")
    /\ UNCHANGED << stack_pool, stack_context, stack_buffer, curr_stack_id,
                    data_pool, avaiable_index, chain, dirty, frame, entries,
                    log >>

\* one turn of `while self.switch_stack(RR) {}`: a switch, after which the
\* loop goes on when main is resumed, or false and run returns
RunLoop ==
    /\ pc.k = "run"
    /\ LET sel == Select(stack_pool, curr_stack_id, RR)
       IN  IF sel.res = "none"
           THEN /\ pc' = HostPc
                /\ last' = Last("run", "return")
                /\ UNCHANGED << stack_pool, stack_context, curr_stack_id,
                                frame, dirty >>
           ELSE SwitchStack(stack_pool, stack_context, RR, RunPc, "run")
    /\ UNCHANGED << stack_buffer, data_pool, avaiable_index, RUNTIME_PTR,
                    chain, calls, entries, log >>

(* ------------------------------------------------------------------ *)
(* The free functions                                                  *)
(* ------------------------------------------------------------------ *)
next_stack ==
    /\ Turn(YIELD)
    /\ Count
    /\ \/ NullDeref("next_stack")
       \/ /\ RUNTIME_PTR # "null"
          /\ SwitchStack(stack_pool, stack_context, RR, After,
                         "next_stack")
    /\ UNCHANGED << stack_buffer, data_pool, avaiable_index, RUNTIME_PTR,
                    chain, entries, log >>

\* a terminate_stacks that ends the calling fiber alone
TerminatedOnlyCaller ==
    [i \in StackIds |->
        IF i = PROCESS_MAIN_STACK_ID THEN READY
        ELSE IF stack_pool[i] = RUNNING THEN AVAIABLE ELSE stack_pool[i]]

\* terminate_stacks: the table before its switch_stack(RR)
Terminated ==
    [i \in StackIds |->
        IF i = PROCESS_MAIN_STACK_ID THEN READY ELSE AVAIABLE]

goto_main ==
    /\ Turn(GOTO_MAIN)
    /\ Count
    /\ \/ NullDeref("goto_main")
       \/ /\ RUNTIME_PTR # "null"
          /\ SwitchStack(Terminated, stack_context, RR, After,
                         "goto_main")
    /\ UNCHANGED << stack_buffer, data_pool, avaiable_index, RUNTIME_PTR,
                    chain, entries, log >>

\* switch_stack_to(stack_id) with the table pool and the contexts ctxs
SwitchStackTo(pool, ctxs, stack_id, op) ==
    IF stack_id > MAX_STACKS
    THEN \* stack_pool[stack_id]: index out of bounds
         /\ stack_pool' = pool
         /\ stack_context' = ctxs
         /\ pc' = CrashPc
         /\ last' = Last(op, "crash")
         /\ UNCHANGED << curr_stack_id, frame, dirty >>
    ELSE IF pool[stack_id] = RUNNING
    THEN /\ stack_pool' = pool
         /\ stack_context' = ctxs
         /\ pc' = After
         /\ last' = Last(op, "already running")
         /\ UNCHANGED << curr_stack_id, frame, dirty >>
    ELSE SwitchStack(pool, ctxs, O1(stack_id), After, op)

stack_to(id) ==
    /\ Turn(STACK_TO(id))
    /\ Count
    /\ \/ NullDeref("stack_to")
       \/ /\ RUNTIME_PTR # "null"
          /\ SwitchStackTo(stack_pool, stack_context, id, "stack_to")
    /\ UNCHANGED << stack_buffer, data_pool, avaiable_index, RUNTIME_PTR,
                    chain, entries, log >>

\* a trigger_stack_func that leaves the saved rsp of the target alone
TriggeredKeepsRsp(target_stack_id) ==
    [stack_context EXCEPT ![target_stack_id] =
        [rsp |-> stack_context[target_stack_id].rsp,
         edi |-> curr_stack_id,
         esi |-> avaiable_index]]

\* a trigger_stack_func that passes the index after its increment
TriggeredNextIndex(target_stack_id) ==
    [stack_context EXCEPT ![target_stack_id] =
        [rsp |-> AlignedTop(target_stack_id) + TRIGGER_OFFSET,
         edi |-> curr_stack_id,
         esi |-> avaiable_index + 1]]

\* trigger_stack_func: the contexts after the writes to the target's
Triggered(target_stack_id) ==
    [stack_context EXCEPT ![target_stack_id] =
        [rsp |-> AlignedTop(target_stack_id) + TRIGGER_OFFSET,
         edi |-> curr_stack_id,
         esi |-> avaiable_index]]

\* a check that lets the main fiber through
WrongStackIdAboveOnly(target_stack_id) ==
    target_stack_id > MAX_STACKS

\* the check of target_stack_id that opens trigger_stack_func
WrongStackId(target_stack_id) ==
    target_stack_id <= PROCESS_MAIN_STACK_ID \/ target_stack_id > MAX_STACKS

trigger_stack_to(id, event) ==
    /\ Turn(TRIGGER(id, event))
    /\ Count
    /\ \/ /\ NullDeref("trigger_stack_to")
          /\ UNCHANGED << data_pool, avaiable_index >>
       \/ /\ RUNTIME_PTR # "null"
          /\ IF WrongStackId(id)
             THEN /\ pc' = After
                  /\ last' = Last("trigger_stack_to", "wrong id")
                  /\ UNCHANGED << stack_pool, stack_context, curr_stack_id,
                                  frame, dirty, data_pool, avaiable_index >>
             ELSE /\ data_pool' = Append(data_pool, event)
                  /\ avaiable_index' = avaiable_index + 1
                  /\ SwitchStackTo(stack_pool, Triggered(id), id,
                                   "trigger_stack_to")
    /\ entries' = IF last'.res = "switch" /\ pc'.k = "fn"
                  THEN entries + 1 ELSE entries
    /\ UNCHANGED << stack_buffer, RUNTIME_PTR, chain, log >>

get_current_stack_id ==
    /\ Turn(CURRENT_ID)
    /\ Count
    /\ IF RUNTIME_PTR = "null"
       THEN /\ pc' = CrashPc
            /\ last' = Last("get_current_stack_id", "crash")
       ELSE /\ pc' = After
            /\ last' = Last("get_current_stack_id", "value")
    /\ UNCHANGED << stack_pool, stack_context, stack_buffer, curr_stack_id,
                    data_pool, avaiable_index, RUNTIME_PTR, chain, dirty,
                    frame, entries, log >>

(* ------------------------------------------------------------------ *)
(* The rest of a function, and the words above it                      *)
(* ------------------------------------------------------------------ *)
\* a logging body writes its id and how far it is
Log ==
    /\ FnTurn(LOG)
    /\ log' = Append(log, << curr_stack_id, pc.pos >>)
    /\ pc' = After
    /\ UNCHANGED << stack_pool, stack_context, stack_buffer, curr_stack_id,
                    data_pool, avaiable_index, RUNTIME_PTR, chain, dirty,
                    frame, calls, last, entries >>

\* `ret`: of a body or trigger function, or of finish_and_next_stack
Return ==
    /\ \/ pc.k = "ret"
       \/ /\ pc.k = "fn"
          /\ IF pc.pos > Len(pc.code) THEN TRUE ELSE pc.code[pc.pos] = ANY
    /\ pc' \in Land(curr_stack_id, pc.sp, Garbage, Garbage, frame, chain, dirty)
    /\ dirty' = Clobber(curr_stack_id, dirty, pc')
    /\ UNCHANGED << stack_pool, stack_context, stack_buffer, curr_stack_id,
                    data_pool, avaiable_index, RUNTIME_PTR, chain, frame,
                    calls, last, entries, log >>

finish_and_next_stack ==
    /\ pc.k = "finish"
    /\ \/ NullDeref("finish_and_next_stack")
       \/ /\ RUNTIME_PTR # "null"
          /\ IF curr_stack_id # PROCESS_MAIN_STACK_ID
             THEN SwitchStack([stack_pool EXCEPT ![curr_stack_id] = AVAIABLE],
                              stack_context, RR, RetPc(pc.sp),
                              "finish_and_next_stack")
             ELSE /\ pc' = RetPc(pc.sp)
                  /\ last' = Last("finish_and_next_stack", "none")
                  /\ UNCHANGED << stack_pool, stack_context, curr_stack_id,
                                  frame, dirty >>
    /\ UNCHANGED << stack_buffer, data_pool, avaiable_index, RUNTIME_PTR,
                    chain, calls, entries, log >>

(* ------------------------------------------------------------------ *)
(* Specification: a hosting program that makes any calls, and fibers   *)
(* whose functions make any calls                                      *)
(* ------------------------------------------------------------------ *)
Budget == calls < MaxCalls

Next ==
    \/ Budget /\ NewStack(AnyCode, AnyCode)
    \/ Budget /\ Run
    \/ RunLoop
    \/ Budget /\ next_stack
    \/ Budget /\ goto_main
    \/ Budget /\ \E id \in ArgIds : stack_to(id)
    \/ Budget /\ \E id \in ArgIds, event \in Events : trigger_stack_to(id, event)
    \/ Budget /\ get_current_stack_id
    \/ Return
    \/ finish_and_next_stack

Spec == Init /\ [][Next]_vars

(* ------------------------------------------------------------------ *)
(* Specification: main() as in the source, which spawns some fibers    *)
(* and calls run() once; the bodies print, and may yield or go to main *)
(* ------------------------------------------------------------------ *)
NextRun ==
    \/ RUNTIME_PTR = "null" /\ \E b \in RunBodies : NewStack(b, TriggerCode)
    \/ RUNTIME_PTR = "null" /\ Run
    \/ RunLoop
    \/ pc.k = "fn" /\ next_stack
    \/ pc.k = "fn" /\ goto_main
    \/ Log
    \/ Return
    \/ finish_and_next_stack

SpecRun == Init /\ [][NextRun]_vars

\* the same program on a processor that goes on executing: once run() is
\* called, the step of the code that is current is taken; main() itself may
\* stop spawning, and may never call run()
SpecRunFair ==
    /\ Init
    /\ [][NextRun]_vars
    /\ WF_vars(RunLoop)
    /\ WF_vars(pc.k = "fn" /\ next_stack)
    /\ WF_vars(pc.k = "fn" /\ goto_main)
    /\ WF_vars(Log)
    /\ WF_vars(Return)
    /\ WF_vars(finish_and_next_stack)
(* ------------------------------------------------------------------ *)
(* Helpers of the properties                                           *)
(* ------------------------------------------------------------------ *)
Workers == 1 .. MAX_STACKS
RunningSet == { i \in StackIds : stack_pool[i] = RUNNING }
\* the process is alive: no fault, no panic, no endless scan
Alive == pc.k \notin { "crash", "hang" }
\* run() has just returned to main()
RunReturned == pc.k = "host" /\ last = Last("run", "return")
\* the body and trigger function new_stack wrote on the buffer of fiber i
BodyOf(i) == chain[i][0 - 64]
\* exactly the fibers 1 .. k were spawned, with the bodies b[1] .. b[k]
Spawned(b) ==
    \A i \in Workers :
        IF i <= Len(b) THEN BodyOf(i) = FnWord(b[i]) ELSE BodyOf(i) = Zero
\* what fiber i wrote to the log, in order
RECURSIVE LogOf(_, _)
LogOf(i, l) ==
    IF l = << >> THEN << >>
    ELSE IF Head(l)[1] = i THEN << Head(l)[2] >> \o LogOf(i, Tail(l))
    ELSE LogOf(i, Tail(l))

\* C1 (as claimed): after every operation, exactly one fiber is RUNNING and
\* curr_stack_id is its id.
C1_ExactlyOneRunning ==
    Alive => (RunningSet = { curr_stack_id })

\* C2 (as claimed): for every k in 1 .. MAX_STACKS, k spawned bodies that
\* print and return are each executed once by run(), in the order 1 .. k,
\* and run() returns with fiber 0 RUNNING.
C2_RunExecutesAllInOrder ==
    \A k \in 1 .. MAX_STACKS :
        (RunReturned /\ Spawned([i \in 1 .. k |-> LogCode]))
            => /\ log = [i \in 1 .. k |-> << i, 1 >>]
               /\ stack_pool[0] = RUNNING
               /\ curr_stack_id = 0

\* C3 (as claimed): two bodies that print, yield and print produce the log
\* A1, B1, A2, B2.
C3_YieldInterleaves ==
    (RunReturned /\ Spawned(<< YieldCode, YieldCode >>))
        => log = << << 1, 1 >>, << 2, 1 >>, << 1, 3 >>, << 2, 3 >> >>

\* C4 (as claimed): with bodies print / print, goto_main, print / print,
\* after run() fibers 1 and 3 each ran their body once, fiber 2 ran up to
\* its goto_main, and every worker is AVAIABLE.
C4_GotoMainOthersRan ==
    (RunReturned /\ Spawned(<< LogCode, GotoCode, LogCode >>))
        => /\ LogOf(1, log) = << 1 >>
           /\ LogOf(3, log) = << 1 >>
           /\ LogOf(2, log) = << 1 >>
           /\ \A i \in Workers : stack_pool[i] = AVAIABLE

\* C4 (amended): with the same bodies, after run() fiber 1 ran its body
\* once, fiber 2 ran up to its goto_main, fiber 3 never ran, and every
\* worker is AVAIABLE.
C4_GotoMainEndsOthers ==
    (RunReturned /\ Spawned(<< LogCode, GotoCode, LogCode >>))
        => /\ log = << << 1, 1 >>, << 2, 1 >> >>
           /\ \A i \in Workers : stack_pool[i] = AVAIABLE

C4_Witness ==
    /\ RunReturned
    /\ Spawned(<< LogCode, GotoCode, LogCode >>)
    /\ last = Last("run", "return")
    /\ frame[2].k.k = "fn" /\ frame[2].k.code = GotoCode /\ frame[2].k.pos = 3

\* C5 (as claimed): run() returns only when no fiber of the table is READY.
C5_RunReturnsQuiesced ==
    RunReturned => \A i \in StackIds : stack_pool[i] # READY
\* the READY fiber with the lowest id
MinReady(pool) ==
    CHOOSE i \in StackIds :
        pool[i] = READY /\ \A j \in StackIds : pool[j] = READY => i <= j
\* a selection over the table pre chose the lowest READY fiber: it is the
\* current fiber now, and no other fiber turned RUNNING
PickedLowest(pre) ==
    /\ \E i \in StackIds : pre[i] = READY
    /\ curr_stack_id' = MinReady(pre)
    /\ \A i \in StackIds :
           (pre[i] # RUNNING /\ stack_pool'[i] = RUNNING) => i = MinReady(pre)

C7_GotoMainFromWorker ==
    [][ (goto_main /\ curr_stack_id # PROCESS_MAIN_STACK_ID)
            => /\ \A i \in Workers : stack_pool'[i] = AVAIABLE
               /\ stack_pool'[PROCESS_MAIN_STACK_ID] = RUNNING
               /\ curr_stack_id' = PROCESS_MAIN_STACK_ID
               /\ last' = Last("goto_main", "switch")
      ]_vars

\* a worker called goto_main while main() was inside run()
C7_Witness ==
    /\ last = Last("goto_main", "switch")
    /\ pc.k = "run"
    /\ \E i \in Workers :
           /\ frame[i].k.k = "fn"
           /\ stack_context[i].rsp = frame[i].at
           /\ stack_pool[i] = AVAIABLE

\* C8: once run() has installed the runtime, trigger(0, e) and
\* trigger(MAX_STACKS + 1, e) return false and change nothing: no state, no
\* saved context, not curr_stack_id, not the event buffer nor its index.
C8_TriggerWrongIdNoChange ==
    [][ \A id \in { PROCESS_MAIN_STACK_ID, MAX_STACKS + 1 }, e \in Events :
            (RUNTIME_PTR # "null" /\ trigger_stack_to(id, e))
                => /\ last' = Last("trigger_stack_to", "wrong id")
                   /\ UNCHANGED << stack_pool, stack_context, curr_stack_id,
                                   data_pool, avaiable_index, chain, frame >>
      ]_vars

\* a worker had its trigger refused, with an event already in the buffer
C8_Witness ==
    /\ last = Last("trigger_stack_to", "wrong id")
    /\ curr_stack_id # PROCESS_MAIN_STACK_ID
    /\ Len(data_pool) >= 1

\* C9 (as claimed): switch_to(current_id()) returns false and changes no
\* state, no saved context, not curr_stack_id, not the event buffer.
C9_SwitchToSelfRefused ==
    [][ (RUNTIME_PTR # "null" /\ stack_to(curr_stack_id))
            => /\ last' = Last("stack_to", "already running")
               /\ UNCHANGED << stack_pool, stack_context, curr_stack_id,
                               data_pool, avaiable_index >>
      ]_vars

Fresh(i) ==
    /\ stack_pool[i] = READY
    /\ stack_context[i].rsp = AlignedTop(i) - 64
    /\ dirty[i] = NoDirty
\* the code is at the first instruction of the function new_stack wrote at
\* offset off of the buffer of the current fiber
EntryAt(k, cur, off) ==
    /\ k.k = "fn"
    /\ k.pos = 1
    /\ k.sp = AlignedTop(cur) + off + 8

\* C11: a trigger of a spawned worker t that has not run, when its switch is
\* performed, makes t RUNNING and current and enters T with the caller's id
\* as first argument; the return of T reaches finish_and_next_stack, which
\* marks t AVAIABLE and performs a round-robin switch; the body B is entered
\* only from the stack pointer new_stack stored, which only new_stack stores.
C11_TriggerRunsEntryNotBody ==
    [][ /\ \A id \in Workers, e \in Events :
               (trigger_stack_to(id, e) /\ Fresh(id) /\ last'.res = "switch")
                   => /\ stack_pool'[id] = RUNNING
                      /\ curr_stack_id' = id
                      /\ pc' = Pc("fn", chain[id][TRIGGER_OFFSET].code, 1,
                                  AlignedTop(id) + TRIGGER_OFFSET + 8,
                                  curr_stack_id, avaiable_index)
                      /\ dirty'[id] = TRIGGER_OFFSET
        /\ (Return /\ pc.k = "fn"
                /\ pc.sp = AlignedTop(curr_stack_id) + TRIGGER_OFFSET + 8
                /\ dirty[curr_stack_id] = TRIGGER_OFFSET)
               => pc' = FinishPc(AlignedTop(curr_stack_id) - 8)
        /\ (finish_and_next_stack /\ curr_stack_id # PROCESS_MAIN_STACK_ID)
               => /\ stack_pool'[curr_stack_id] = AVAIABLE
                  /\ last' = Last("finish_and_next_stack", "switch")
                  /\ curr_stack_id' # curr_stack_id
        /\ \A i \in Workers :
               /\ (curr_stack_id' = i /\ pc' # pc /\ EntryAt(pc', i, 0 - 64))
                      => stack_context[i].rsp = AlignedTop(i) - 64
               /\ (stack_context'[i].rsp = AlignedTop(i) - 64
                       /\ stack_context[i].rsp # AlignedTop(i) - 64)
                      => last'.op = "new_stack"
      ]_vars

\* a worker that was never switched away from is in finish_and_next_stack
\* above its trigger function: it was triggered before it ran, and T returned
C11_Witness ==
    /\ curr_stack_id # PROCESS_MAIN_STACK_ID
    /\ pc = FinishPc(AlignedTop(curr_stack_id) - 8)
    /\ frame[curr_stack_id] = NoFrame
    /\ chain[curr_stack_id][0 - 64].t = "fn"

\* C12: on a fresh runtime the n-th new_stack (n = 1 .. MAX_STACKS) leaves
\* exactly the workers 1 .. n READY; every new_stack that finds an AVAIABLE
\* stack turns the one with the lowest id, a worker, READY and changes no
\* other state nor curr_stack_id; a new_stack with no AVAIABLE stack, the
\* (MAX_STACKS + 1)-th on a fresh runtime, panics and marks no fiber READY.
C12_SpawnUntilExhausted ==
    /\ []((RUNTIME_PTR = "null" /\ Alive)
             => /\ calls <= MAX_STACKS
                /\ stack_pool = [i \in StackIds |->
                       IF i = PROCESS_MAIN_STACK_ID THEN RUNNING
                       ELSE IF i <= calls THEN READY ELSE AVAIABLE])
    /\ []((RUNTIME_PTR = "null" /\ last = Last("new_stack", "crash"))
             => calls = MAX_STACKS + 1)
    /\ [][ NewStack(AnyCode, AnyCode)
             => LET free == { i \in StackIds : stack_pool[i] = AVAIABLE }
                IN  /\ curr_stack_id' = curr_stack_id
                    /\ IF free = { }
                       THEN /\ pc' = CrashPc
                            /\ last' = Last("new_stack", "crash")
                            /\ stack_pool' = stack_pool
                       ELSE \E n \in free \cap Workers :
                               /\ \A j \in free : n <= j
                               /\ stack_pool' = [stack_pool EXCEPT ![n] = READY]
                               /\ last' = Last("new_stack", "none")
                               /\ pc' = pc
         ]_vars

\* the (MAX_STACKS + 1)-th new_stack of a fresh runtime panicked
C12_Witness ==
    /\ RUNTIME_PTR = "null"
    /\ last = Last("new_stack", "crash")
    /\ pc = CrashPc
    /\ calls = MAX_STACKS + 1
    /\ \A i \in Workers : stack_pool[i] = READY

\* C13 (as claimed): the main fiber is never AVAIABLE; it is RUNNING when
\* curr_stack_id is 0 and READY when a worker is the current fiber.
C13_MainNeverAvaiable ==
    Alive =>
        /\ stack_pool[PROCESS_MAIN_STACK_ID] # AVAIABLE
        /\ (curr_stack_id = PROCESS_MAIN_STACK_ID
               => stack_pool[PROCESS_MAIN_STACK_ID] = RUNNING)
        /\ (curr_stack_id # PROCESS_MAIN_STACK_ID
               => stack_pool[PROCESS_MAIN_STACK_ID] = READY)

\* this step switches to fiber i and goes on in the call that suspended it
Resumes(i) ==
    /\ last'.res = "switch"
    /\ curr_stack_id' = i
    /\ curr_stack_id # i
    /\ stack_context'[i].rsp = frame[i].at
    /\ pc' = frame[i].k

\* C14 (as claimed): a worker that called goto_main is AVAIABLE after the
\* call, and no later operation goes on in the code that follows the call.
C14_GotoMainNeverResumed ==
    [][ /\ (goto_main /\ curr_stack_id # PROCESS_MAIN_STACK_ID)
               => stack_pool'[curr_stack_id] = AVAIABLE
        /\ \A i \in Workers :
               ~(Resumes(i) /\ frame[i].op = "goto_main")
      ]_vars

\* address a lies in the stack buffer of fiber i
InBuffer(i, a) ==
    /\ stack_buffer[i] <= a
    /\ a < stack_buffer[i] + STACK_BUFFER_SIZE

\* C15 (as claimed): the saved rsp of every fiber that is not RUNNING, the
\* main fiber and the workers never spawned included, lies in the fiber's
\* own stack buffer.
C15_SavedRspInOwnBuffer ==
    \A i \in StackIds :
        stack_pool[i] # RUNNING => InBuffer(i, stack_context[i].rsp)

\* C16 (as claimed): no operation that the process survives turns a fiber
\* that is AVAIABLE into a RUNNING one.
C16_RunningOnlyFromReady ==
    [][ \A i \in StackIds :
            (stack_pool[i] = AVAIABLE /\ pc'.k \notin { "crash", "hang" })
                => stack_pool'[i] # RUNNING
      ]_vars

\* worker i is READY and suspended in the next_stack call of its body
YieldedInBody(i) ==
    /\ stack_pool[i] = READY
    /\ frame[i].op = "next_stack"
    /\ frame[i].k.k = "fn"
    /\ frame[i].at = (AlignedTop(i) - 56) - FrameBytes
    /\ stack_context[i].rsp = frame[i].at

\* C17: a trigger of a worker t suspended in a next_stack call of its body,
\* when its switch is performed, enters T and not the suspended
\* continuation, and leaves the saved rsp of t off that continuation; the
\* saved rsp of a worker comes to match a suspended call again only when
\* the worker itself is switched away from, so the rest of the body is not
\* resumed; the return of T reaches finish_and_next_stack, which leaves t
\* AVAIABLE.
C17_TriggerDiscardsContinuation ==
    [][ /\ \A id \in Workers, e \in Events :
               (trigger_stack_to(id, e) /\ YieldedInBody(id)
                    /\ last'.res = "switch")
                   => /\ stack_pool'[id] = RUNNING
                      /\ curr_stack_id' = id
                      /\ EntryAt(pc', id, TRIGGER_OFFSET)
                      /\ pc'.code = chain[id][TRIGGER_OFFSET].code
                      /\ pc' # frame[id].k
                      /\ frame'[id] = frame[id]
                      /\ stack_context'[id].rsp # frame'[id].at
                      /\ dirty'[id] = TRIGGER_OFFSET
        /\ \A i \in Workers :
               (stack_context[i].rsp # frame[i].at
                    /\ stack_context'[i].rsp = frame'[i].at)
                   => /\ curr_stack_id = i
                      /\ curr_stack_id' # i
                      /\ last'.res = "switch"
                      /\ frame'[i].op = last'.op
        /\ \A i \in Workers :
               (curr_stack_id' = i /\ pc' # pc /\ frame[i] # NoFrame
                    /\ pc' = frame[i].k)
                   => (Resumes(i) /\ stack_context[i].rsp = frame[i].at)
        /\ (Return /\ EntryAt([pc EXCEPT !.pos = 1], curr_stack_id,
                              TRIGGER_OFFSET)
                /\ dirty[curr_stack_id] = TRIGGER_OFFSET
                /\ frame[curr_stack_id].op = "next_stack")
               => /\ pc' = FinishPc(AlignedTop(curr_stack_id) - 8)
                  /\ stack_pool[curr_stack_id] = RUNNING
        /\ (finish_and_next_stack /\ curr_stack_id # PROCESS_MAIN_STACK_ID
                /\ frame[curr_stack_id].op = "next_stack")
               => /\ stack_pool'[curr_stack_id] = AVAIABLE
                  /\ frame'[curr_stack_id].op = "finish_and_next_stack"
      ]_vars

\* a worker whose last suspension is the next_stack of its body is in
\* finish_and_next_stack above its trigger function: it was triggered while
\* it was suspended, and T returned
C17_Witness ==
    /\ curr_stack_id # PROCESS_MAIN_STACK_ID
    /\ pc = FinishPc(AlignedTop(curr_stack_id) - 8)
    /\ frame[curr_stack_id].op = "next_stack"
    /\ frame[curr_stack_id].k.k = "fn"
    /\ frame[curr_stack_id].at = (AlignedTop(curr_stack_id) - 56) - FrameBytes

\* no spawned body calls goto_main: each prints, may yield once, and returns
BodiesYieldAndReturn ==
    \A i \in Workers :
        BodyOf(i) \in { Zero, FnWord(LogCode), FnWord(YieldCode) }
\* the round-robin scan of a switch_stack(RR) called now comes to an end:
\* in run and next_stack, after the writes of terminate_stacks, and after
\* the write of finish_and_next_stack
ScanTerminates ==
    /\ pc.k # "hang"
    /\ Select(stack_pool, curr_stack_id, RR).res # "loop"
    /\ Select(Terminated, curr_stack_id, RR).res # "loop"
    /\ Select([stack_pool EXCEPT ![curr_stack_id] = AVAIABLE],
              curr_stack_id, RR).res # "loop"

\* C18: with 0 .. MAX_STACKS spawned bodies that yield finitely often and
\* return, a run() that was called eventually returns; and the round-robin
\* scan comes to an end in every reachable state.
C18_RunTerminates ==
    /\ []((RUNTIME_PTR = "runtime" /\ BodiesYieldAndReturn) => <>RunReturned)
    /\ []ScanTerminates

\* run() returned after five spawned bodies, yielding ones among them, and
\* a yielding body ran to its end
C18_Witness ==
    /\ RunReturned
    /\ BodiesYieldAndReturn
    /\ \A i \in Workers : BodyOf(i) # Zero
    /\ BodyOf(1) = FnWord(YieldCode)
    /\ BodyOf(3) = FnWord(YieldCode)
    /\ LogOf(1, log) = << 1, 3 >>
    /\ LogOf(3, log) = << 1, 3 >>

\* C19: whenever a worker is the current fiber, or RUNNING, the main fiber is
\* READY; every next_stack called from a worker and every
\* finish_and_next_stack of a worker switches to fiber 0.
C19_WorkersSwitchToMain ==
    /\ [](/\ curr_stack_id # PROCESS_MAIN_STACK_ID
              => stack_pool[PROCESS_MAIN_STACK_ID] = READY
          /\ \A i \in Workers :
                 stack_pool[i] = RUNNING
                     => /\ stack_pool[PROCESS_MAIN_STACK_ID] = READY
                        /\ curr_stack_id = i)
    /\ [][ ((next_stack \/ finish_and_next_stack)
                /\ curr_stack_id # PROCESS_MAIN_STACK_ID)
               => /\ last'.res = "switch"
                  /\ curr_stack_id' = PROCESS_MAIN_STACK_ID
                  /\ stack_pool'[PROCESS_MAIN_STACK_ID] = RUNNING
                  /\ \A i \in Workers : stack_pool'[i] # RUNNING
         ]_vars

\* a worker yielded while another worker was READY, and the main fiber
\* was resumed
C19_Witness ==
    /\ last = Last("next_stack", "switch")
    /\ curr_stack_id = PROCESS_MAIN_STACK_ID
    /\ \E i, j \in Workers :
           /\ i # j
           /\ stack_pool[i] = READY
           /\ frame[i].op = "next_stack"
           /\ stack_context[i].rsp = frame[i].at
           /\ stack_pool[j] = READY

\* C20 (as claimed): a trigger that returns false, for a wrong id or for a
\* target that is RUNNING, leaves the event buffer, its index and every
\* saved context unchanged.
C20_RefusedTriggerNoChange ==
    [][ \A id \in ArgIds, e \in Events :
            (trigger_stack_to(id, e)
                 /\ last'.res \in { "wrong id", "already running" })
                => UNCHANGED << data_pool, avaiable_index, stack_context >>
      ]_vars
====
